---- MODULE Spec2Model ----
(***************************************************************************)
(* periscope-viewer (src/src/main.rs): the configuration model, the        *)
(* per-frame condition evaluation of App::update, and the hand-off of      *)
(* controller states between the network reader thread of spawn_client     *)
(* and the render loop through an RwLock<Vec<ControllerState>>.            *)
(*                                                                         *)
(* Threads.  main() runs load_config, spawn_client and then the frame loop *)
(* on the main thread; spawn_client starts one reader thread.  A panic on  *)
(* the main thread ends the process (pcMain = "exited"); a panic in the    *)
(* spawned thread ends that thread only (pcReader = "panicked"), which is  *)
(* what std::thread::spawn does with an unwinding panic.  The model starts  *)
(* once main() has taken its two arguments.                                *)
(***************************************************************************)
EXTENDS Integers, Sequences, FiniteSets, TLC

VARIABLES
    file,                       \* what load_config finds at the config path
    config,                     \* App.config, the loaded Config
    pcMain,                     \* position of the main thread
    panic_main,                 \* message of the panic that ended the main thread
    shared_controller_states,   \* the Vec inside the RwLock (the store)
    readers,                    \* RwLock: number of read guards alive
    writer,                     \* RwLock: a write guard is alive
    poisoned,                   \* RwLock: poison flag
    pcReader,                   \* position of the reader thread
    panic_reader,               \* message of the panic that ended the reader thread
    message,                    \* the reader's message buffer
    controller_states,          \* the reader's decoded Vec, before it is stored
    active_conditions,          \* the frame's active_conditions Vec
    idx,                        \* the frame's position in config.controllers (1-based)
    drawn,                      \* the draw calls of the current frame, in order
    observed,                   \* history: the collections the frame read through its guard
    lastWrite,                  \* history: the collection of the last completed write
    dup_sent,                   \* history: the server sent a list repeating an id
    writes,                     \* history: number of replacements of the store so far
    written,                    \* history: the collection handed to the last replacement
    seen,                       \* history: the number of the replacement the last frame observed
    outstanding,                \* history: requests sent minus responses read
    response,                   \* history: what the server sent for the last request
    color_input,                \* the string handed to ColorFromString::deserialize_as
    color_result                \* its result

vars == <<file, config, pcMain, panic_main, shared_controller_states, readers,
          writer, poisoned, pcReader, panic_reader, message, controller_states,
          active_conditions, idx, drawn, observed, lastWrite, dup_sent,
          writes, written, seen, outstanding, response, color_input,
          color_result>>

mainVars   == <<file, config, pcMain, panic_main>>
lockVars   == <<readers, writer, poisoned>>
readerVars == <<pcReader, panic_reader, message, controller_states>>
frameVars  == <<active_conditions, idx, drawn, observed>>
colorVars  == <<color_input, color_result>>
orderVars  == <<writes, written, seen>>
wireVars   == <<outstanding, response>>

(***************************************************************************)
(* Bounds of the model.                                                    *)
(***************************************************************************)
MaxSnapshots == 2       \* longest list of snapshots in one server message
MaxConds     == 2       \* longest condition list of an item
MaxColorLen  == 9       \* longest color string
MaxWrites    == 3       \* messages the server sends after that many replacements: none

SeqsUpTo(S, n) == UNION {[1..k -> S] : k \in 0..n}

(***************************************************************************)
(* ConditionValue and the button table.                                    *)
(***************************************************************************)
BUTTON_CONDITIONS ==
    <<"ButtonA", "ButtonB", "ButtonX", "ButtonY", "ButtonStickLeft",
      "ButtonStickRight", "ButtonL", "ButtonR", "ButtonZL", "ButtonZR",
      "ButtonPlus", "ButtonMinus", "ButtonDpadLeft", "ButtonDpadUp",
      "ButtonDpadRight", "ButtonDpadDown">>

\* the arms 0..7 of `match controller_state.id`
CONNECTED_N ==
    <<"Connected0", "Connected1", "Connected2", "Connected3",
      "Connected4", "Connected5", "Connected6", "Connected7">>

ConditionValue ==
    {BUTTON_CONDITIONS[i] : i \in 1..16}
    \cup {"ButtonCapture", "ButtonHome", "StickLeftActive", "StickRightActive",
          "Connected"}
    \cup {CONNECTED_N[i] : i \in 1..8}

(***************************************************************************)
(* An f32 as the exact fraction num/den in lowest terms, den > 0.  The     *)
(* rounding of f32 arithmetic, infinities and NaN are not modelled.        *)
(***************************************************************************)
RECURSIVE Gcd(_, _)
Gcd(a, b) == IF b = 0 THEN a ELSE Gcd(b, a % b)

Abs(n) == IF n < 0 THEN 0 - n ELSE n

F32(n, d) ==
    LET g == Gcd(Abs(n), Abs(d))
        sign == IF d < 0 THEN 0 - 1 ELSE 1
    IN  [num |-> (sign * n) \div g, den |-> (sign * d) \div g]

Whole(n) == F32(n, 1)

FAdd(a, b) == F32(a.num * b.den + b.num * a.den, a.den * b.den)
FSub(a, b) == F32(a.num * b.den - b.num * a.den, a.den * b.den)
FMul(a, b) == F32(a.num * b.num, a.den * b.den)
FDiv(a, b) == F32(a.num * b.den, a.den * b.num)

\* egui::Pos2, egui::Vec2, StickState
pos2(x, y) == [x |-> x, y |-> y]
Origin == pos2(Whole(0), Whole(0))

\* Option<PositionModifier>
NoModifier == [type |-> "none", range |-> Whole(0)]
StickLeft(range) == [type |-> "stick_left", range |-> range]
StickRight(range) == [type |-> "stick_right", range |-> range]

Condition(n, v) == [not |-> n, value |-> v]
ItemAt(n, c, p, m) ==
    [name |-> n, condition |-> c, position |-> p, position_modifier |-> m]
Item(n, c) == ItemAt(n, c, Origin, NoModifier)
Layout(n, its) == [name |-> n, items |-> its]
ControllerConfigAt(i, l, p) == [id |-> i, layout |-> l, position |-> p]
ControllerConfig(i, l) == ControllerConfigAt(i, l, Origin)
ConfigScaled(cs, ls, its, sc) ==
    [controllers |-> cs, layouts |-> ls, items |-> its, scale |-> sc]
Config(cs, ls, its) == ConfigScaled(cs, ls, its, Whole(1))
ControllerStateSticks(i, conn, b, l, r) ==
    [id |-> i, c |-> conn, bs |-> b, ls |-> l, rs |-> r]
ControllerState(i, conn, b) == ControllerStateSticks(i, conn, b, Origin, Origin)

\* a u32 as its two 16-bit halves: the value is hi * 65536 + lo
U32(h, l) == [hi |-> h, lo |-> l]

NoConfig == Config(<<>>, <<>>, <<>>)

(***************************************************************************)
(* load_config: read_to_string(path).expect, toml::from_str(..).expect.    *)
(* The file is unreadable, is not a valid configuration document, or       *)
(* deserializes into a Config.  Deserialization checks each field's type   *)
(* and nothing across fields: controllers[i].layout is any String.         *)
(***************************************************************************)
ConfigFile(k, c) == [kind |-> k, config |-> c]

LoadConfig ==
    /\ pcMain = "load_config"
    /\ IF file.kind = "unreadable"
       THEN /\ pcMain' = "exited"
            /\ panic_main' = "Failed to read config"
            /\ UNCHANGED config
       ELSE IF file.kind = "invalid"
       THEN /\ pcMain' = "exited"
            /\ panic_main' = "Failed to parse config"
            /\ UNCHANGED config
       ELSE /\ config' = file.config
            /\ pcMain' = "spawn_client"
            /\ UNCHANGED panic_main
    /\ UNCHANGED <<file, shared_controller_states, lockVars, readerVars,
                   frameVars, lastWrite, dup_sent, colorVars, orderVars, wireVars>>

(***************************************************************************)
(* spawn_client, on the main thread: connect (expect), then spawn.         *)
(***************************************************************************)
SpawnClient ==
    /\ pcMain = "spawn_client"
    /\ \E connected \in BOOLEAN :
         IF connected
         THEN /\ pcMain' = "run_native"
              /\ pcReader' = "write"
              /\ UNCHANGED panic_main
         ELSE /\ pcMain' = "exited"
              /\ panic_main' = "Failed to connect"
              /\ UNCHANGED pcReader
    /\ UNCHANGED <<file, config, shared_controller_states, lockVars,
                   panic_reader, message, controller_states, frameVars,
                   lastWrite, dup_sent, colorVars, orderVars, wireVars>>

\* eframe::run_native(..).expect("egui failed"): the window opens and the
\* frame loop starts calling App::update, or the backend fails
RunNative ==
    /\ pcMain = "run_native"
    /\ \E started \in BOOLEAN :
         IF started
         THEN /\ pcMain' = "update"
              /\ UNCHANGED panic_main
         ELSE /\ pcMain' = "exited"
              /\ panic_main' = "egui failed"
    /\ UNCHANGED <<file, config, shared_controller_states, lockVars,
                   readerVars, frameVars, lastWrite, dup_sent, colorVars, orderVars, wireVars>>

(***************************************************************************)
(* The reader thread (the closure of spawn_client).                        *)
(***************************************************************************)
Message(k, v) == [kind |-> k, value |-> v]
NoMessage == Message("empty", <<>>)

\* a JSON number fits the Rust integer type of its field
FitsU8(n)  == n \in 0..255
FitsU32(n) == n.hi \in 0..65535 /\ n.lo \in 0..65535

\* serde_json::from_slice::<Vec<ControllerState>>(message) is Ok
DecodeOk(msg) ==
    /\ msg.kind = "list"
    /\ \A k \in 1..Len(msg.value) :
         /\ FitsU8(msg.value[k].id)
         /\ FitsU8(msg.value[k].c)
         /\ FitsU32(msg.value[k].bs)

\* the Vec it yields
Decoded(msg) ==
    [k \in 1..Len(msg.value) |->
        ControllerStateSticks(msg.value[k].id, msg.value[k].c, msg.value[k].bs,
                              msg.value[k].ls, msg.value[k].rs)]

HasDuplicateId(cs) ==
    \E i, j \in 1..Len(cs) : i < j /\ cs[i].id = cs[j].id

Alive == pcMain /= "exited"

\* a panic of the reader thread: the unwinding drops the guards the thread
\* holds, and a write guard dropped while panicking poisons the lock
ReaderPanic(msg) ==
    /\ pcReader' = "panicked"
    /\ panic_reader' = msg
    /\ poisoned' = (poisoned \/ writer)
    /\ writer' = FALSE

\* message.clear()
ClearMessage(buf) == NoMessage

\* stream.write_all(&[b'1']).expect(..); message.clear()
ReaderWrite ==
    /\ Alive
    /\ pcReader = "write"
    /\ \E ok \in BOOLEAN :
         IF ok
         THEN /\ pcReader' = "read"
              /\ message' = ClearMessage(message)
              /\ outstanding' = outstanding + 1
              /\ response' = NoMessage
              /\ UNCHANGED <<panic_reader, writer, poisoned>>
         ELSE /\ ReaderPanic("Failed to write to tcp stream")
              /\ UNCHANGED <<message, wireVars>>
    /\ UNCHANGED <<mainVars, shared_controller_states, readers,
                   controller_states, frameVars, lastWrite, dup_sent, colorVars,
                   orderVars>>

(***************************************************************************)
(* What the server may answer to one request.  read_until(b']') returns    *)
(* the bytes up to the marker, or what was received when the peer closed   *)
(* the connection ("eof": no complete document), or an I/O error.          *)
(* The entries of a list are JSON objects with integer fields; 256 is a    *)
(* number that is valid JSON and does not fit ControllerState.id: u8.      *)
(***************************************************************************)
SpecEntries ==
    {ControllerState(0, 1, U32(0, 1)), ControllerState(1, 1, U32(0, 0)),
     ControllerState(256, 1, U32(0, 0))}

ServerMessages ==
    {Message("list", v) : v \in SeqsUpTo(SpecEntries, MaxSnapshots)}
    \cup {Message("garbage", <<>>), Message("eof", <<>>)}

\* read_until appends to the buffer: after bytes that were not cleared, the
\* received ones do not make one document
ReadUntil(buf, msg) ==
    IF buf = NoMessage
    THEN msg
    ELSE Message(IF msg.kind = "eof" THEN "eof" ELSE "garbage", <<>>)

\* the bytes end with the marker b']'
EndsWithMarker(msg) == msg.kind \in {"list", "garbage"}

\* reader.read_until(b']', &mut message).expect(..); &message[..num_read]
ReaderRead ==
    /\ Alive
    /\ pcReader = "read"
    /\ \/ /\ ReaderPanic("Failed to read")
          /\ UNCHANGED <<message, dup_sent, wireVars>>
       \/ \E msg \in ServerMessages :
            /\ writes < MaxWrites
            /\ message' = ReadUntil(message, msg)
            /\ response' = msg
            /\ outstanding' = outstanding - 1
            /\ pcReader' = "decode"
            /\ dup_sent' = (dup_sent \/ HasDuplicateId(msg.value))
            /\ UNCHANGED <<panic_reader, writer, poisoned>>
    /\ UNCHANGED <<mainVars, shared_controller_states, readers,
                   controller_states, frameVars, lastWrite, colorVars, orderVars>>

\* Err(e) => { eprintln!(..); continue; }
OnDecodeError_Default ==
    /\ pcReader' = "lock"
    /\ controller_states' = <<>>

OnDecodeError ==
    /\ pcReader' = "write"
    /\ UNCHANGED controller_states

\* match serde_json::from_slice(message) { Ok(v) => v, Err(e) => continue }
ReaderDecode ==
    /\ Alive
    /\ pcReader = "decode"
    /\ IF DecodeOk(message)
       THEN /\ controller_states' = Decoded(message)
            /\ pcReader' = "lock"
       ELSE OnDecodeError
    /\ UNCHANGED <<mainVars, shared_controller_states, lockVars, panic_reader,
                   message, frameVars, lastWrite, dup_sent, colorVars, orderVars, wireVars>>

\* RwLock::write returns once no guard of either kind is alive
WriteLockFree_IgnoringReaders == ~writer

WriteLockFree == readers = 0 /\ ~writer

\* RwLock::read returns once no write guard is alive
ReadLockFree == ~writer

\* shared_controller_states.write().unwrap()
ReaderLock ==
    /\ Alive
    /\ pcReader = "lock"
    /\ WriteLockFree
    /\ IF poisoned
       THEN ReaderPanic("PoisonError")
       ELSE /\ writer' = TRUE
            /\ pcReader' = "assign"
            /\ UNCHANGED <<panic_reader, poisoned>>
    /\ UNCHANGED <<mainVars, shared_controller_states, readers,
                   message, controller_states, frameVars, lastWrite, dup_sent,
                   colorVars, orderVars, wireVars>>

\* *guard = controller_states: the old Vec is dropped, the new one moved in
StoreValue_Extend(old, new) == old \o new

StoreValue_Stale(old, new) == old

StoreValue_EditFirst(old, new) ==
    IF old = <<>> \/ new = <<>> THEN new ELSE <<new[1]>> \o Tail(old)

StoreValue(old, new) == new

ReaderAssign ==
    /\ Alive
    /\ pcReader = "assign"
    /\ shared_controller_states' =
           StoreValue(shared_controller_states, controller_states)
    /\ pcReader' = "unlock"
    /\ writes' = writes + 1
    /\ written' = controller_states
    /\ UNCHANGED <<mainVars, lockVars, panic_reader, message, controller_states,
                   frameVars, lastWrite, dup_sent, colorVars, seen, wireVars>>

\* the write guard is a temporary of the statement: whether it is still
\* held after the statement
WriteGuardAfterStatement_Kept(held) == held

WriteGuardAfterStatement(held) == FALSE

\* the temporary write guard is dropped at the end of the statement
ReaderUnlock ==
    /\ Alive
    /\ pcReader = "unlock"
    /\ writer' = WriteGuardAfterStatement(writer)
    /\ lastWrite' = shared_controller_states
    /\ pcReader' = "write"
    /\ UNCHANGED <<mainVars, shared_controller_states, readers, poisoned,
                   panic_reader, message, controller_states, frameVars,
                   dup_sent, colorVars, orderVars, wireVars>>

(***************************************************************************)
(* App::update: the pure parts.                                            *)
(***************************************************************************)
\* controller_state.bs & (1 << bit) != 0
BitSet_OffByOne(bs, bit) ==
    IF bit + 1 < 16
    THEN (bs.lo \div (2 ^ (bit + 1))) % 2 /= 0
    ELSE (bs.hi \div (2 ^ (bit + 1 - 16))) % 2 /= 0

BitSet(bs, bit) ==
    IF bit < 16
    THEN (bs.lo \div (2 ^ bit)) % 2 /= 0
    ELSE (bs.hi \div (2 ^ (bit - 16))) % 2 /= 0

\* for (bit, condition) in BUTTON_CONDITIONS.iter().enumerate().take(16)
RECURSIVE ButtonConditions_WithCaptureAndHome(_, _)
ButtonConditions_WithCaptureAndHome(bs, bit) ==
    IF bit >= 18
    THEN <<>>
    ELSE (IF BitSet(bs, bit)
          THEN <<(BUTTON_CONDITIONS \o <<"ButtonCapture", "ButtonHome">>)[bit + 1]>>
          ELSE <<>>)
         \o ButtonConditions_WithCaptureAndHome(bs, bit + 1)

RECURSIVE ButtonConditions(_, _)
ButtonConditions(bs, bit) ==
    IF bit >= 16 \/ bit >= Len(BUTTON_CONDITIONS)
    THEN <<>>
    ELSE (IF BitSet(bs, bit) THEN <<BUTTON_CONDITIONS[bit + 1]>> ELSE <<>>)
         \o ButtonConditions(bs, bit + 1)

\* the per-controller pushes: Connected, then the buttons
ControllerConditions(state) ==
    (IF state.c = 1 THEN <<"Connected">> ELSE <<>>)
    \o ButtonConditions(state.bs, 0)

\* the global pushes: Connected<id> of every snapshot with c == 1 and id in 0..7
RECURSIVE GlobalConditions_AnyFlag(_)
GlobalConditions_AnyFlag(cs) ==
    IF cs = <<>>
    THEN <<>>
    ELSE (IF Head(cs).c = 0
          THEN <<>>
          ELSE IF Head(cs).id \in 0..7
               THEN <<CONNECTED_N[Head(cs).id + 1]>>
               ELSE <<>>)
         \o GlobalConditions_AnyFlag(Tail(cs))

RECURSIVE GlobalConditions(_)
GlobalConditions(cs) ==
    IF cs = <<>>
    THEN <<>>
    ELSE (IF Head(cs).c /= 1
          THEN <<>>
          ELSE IF Head(cs).id \in 0..7
               THEN <<CONNECTED_N[Head(cs).id + 1]>>
               ELSE <<>>)
         \o GlobalConditions(Tail(cs))

\* active_conditions.iter().any(|c| c == &condition.value)
Found(active, value) == \E k \in 1..Len(active) : active[k] = value

\* the inner loop over item.condition: the first pair with
\* found != !condition.not skips the item
RECURSIVE ItemActive_IgnoreNot(_, _)
ItemActive_IgnoreNot(condition, active) ==
    IF condition = <<>>
    THEN TRUE
    ELSE IF ~Found(active, Head(condition).value)
         THEN FALSE
         ELSE ItemActive_IgnoreNot(Tail(condition), active)

RECURSIVE ItemActive(_, _)
ItemActive(condition, active) ==
    IF condition = <<>>
    THEN TRUE
    ELSE IF Found(active, Head(condition).value) /= ~Head(condition).not
         THEN FALSE
         ELSE ItemActive(Tail(condition), active)

\* the stick a position modifier reads
StickReading_Swapped(state, modifier) ==
    IF modifier.type = "stick_left" THEN state.rs ELSE state.ls

StickReading(state, modifier) ==
    IF modifier.type = "stick_left" THEN state.ls ELSE state.rs

\* item_position of an item of config.items
GlobalItemPosition(scale, item) ==
    pos2(FMul(item.position.x, scale), FMul(item.position.y, scale))

\* item_position of an item of the layout of `controller`, whose snapshot is
\* `state`
LayoutItemPosition(scale, controller, state, item) ==
    LET item_position ==
            pos2(FMul(FAdd(controller.position.x, item.position.x), scale),
                 FMul(FAdd(controller.position.y, item.position.y), scale))
        modifier == item.position_modifier
        stick == StickReading(state, modifier)
    IN  IF modifier.type = "none"
        THEN item_position
        ELSE pos2(FAdd(item_position.x,
                       FMul(FDiv(FMul(modifier.range, scale), Whole(32767)),
                            stick.x)),
                  FSub(item_position.y,
                       FMul(FDiv(FMul(modifier.range, scale), Whole(32767)),
                            stick.y)))

\* ctx 0 is the global pass, ctx k the pass over the layout of binding k
ItemPosition(cfg, ctx, state, item) ==
    IF ctx = 0
    THEN GlobalItemPosition(cfg.scale, item)
    ELSE LayoutItemPosition(cfg.scale, cfg.controllers[ctx], state, item)

\* item.render(config, painter, ui, item_position)
Draw(ctx, item, item_position) ==
    [ctx |-> ctx, item |-> item.name, pos |-> item_position]

\* 'item_loop: the draw calls of one pass over an item list, in order
RECURSIVE RenderItems(_, _, _, _, _)
RenderItems(items, active, ctx, cfg, state) ==
    IF items = <<>>
    THEN <<>>
    ELSE (IF ItemActive(Head(items).condition, active)
          THEN <<Draw(ctx, Head(items), ItemPosition(cfg, ctx, state, Head(items)))>>
          ELSE <<>>)
         \o RenderItems(Tail(items), active, ctx, cfg, state)

\* config.layouts.iter().find(|l| l.name == name): its position, 0 for None
FindLayout(layouts, name) ==
    IF \E k \in 1..Len(layouts) : layouts[k].name = name
    THEN CHOOSE k \in 1..Len(layouts) :
            /\ layouts[k].name = name
            /\ \A j \in 1..(k - 1) : layouts[j].name /= name
    ELSE 0

\* controller_states.iter().find(|s| s.id == id): its position, 0 for None
FindState(cs, id) ==
    IF \E k \in 1..Len(cs) : cs[k].id = id
    THEN CHOOSE k \in 1..Len(cs) :
            /\ cs[k].id = id
            /\ \A j \in 1..(k - 1) : cs[j].id /= id
    ELSE 0

(***************************************************************************)
(* App::update, one frame, in the steps at which the reader thread can     *)
(* interleave.  The read guard lives from FrameLock to FrameUnlock (the    *)
(* end of the closure); every step in between reads the Vec through it.    *)
(***************************************************************************)
MainPanic(msg) ==
    /\ pcMain' = "exited"
    /\ panic_main' = msg

\* let controller_states = self.shared_controller_states.read().unwrap();
\* let mut active_conditions = Vec::with_capacity(20);
FrameLock ==
    /\ pcMain = "update"
    /\ ReadLockFree
    /\ IF poisoned
       THEN /\ MainPanic("PoisonError")
            /\ UNCHANGED <<readers, frameVars, seen>>
       ELSE /\ readers' = readers + 1
            /\ pcMain' = "global"
            /\ active_conditions' = <<>>
            /\ idx' = 1
            /\ drawn' = <<>>
            /\ observed' = <<shared_controller_states>>
            /\ seen' = writes
            /\ UNCHANGED panic_main
    /\ UNCHANGED <<file, config, shared_controller_states, writer, poisoned,
                   readerVars, lastWrite, dup_sent, colorVars, writes, written, wireVars>>

\* the global pass: the Connected<id> flags, then 'item_loop over config.items
FrameGlobal ==
    /\ pcMain = "global"
    /\ active_conditions' = GlobalConditions(shared_controller_states)
    /\ drawn' = RenderItems(config.items, active_conditions', 0, config,
                             ControllerState(0, 0, U32(0, 0)))
    /\ observed' = Append(observed, shared_controller_states)
    /\ pcMain' = "controllers"
    /\ UNCHANGED <<file, config, panic_main, shared_controller_states, lockVars,
                   readerVars, idx, lastWrite, dup_sent, colorVars, orderVars, wireVars>>

\* active_conditions.clear()
Clear_Keep(active) == active

Clear(active) == <<>>

\* one iteration of `for controller in &config.controllers`
FrameController ==
    /\ pcMain = "controllers"
    /\ idx <= Len(config.controllers)
    /\ LET controller == config.controllers[idx]
           l == FindLayout(config.layouts, controller.layout)
           s == FindState(shared_controller_states, controller.id)
       IN  IF l = 0
           THEN \* .expect("unknown layout"), after active_conditions.clear()
                /\ MainPanic("unknown layout")
                /\ active_conditions' = Clear(active_conditions)
                /\ UNCHANGED <<idx, drawn, observed>>
           ELSE IF s = 0
           THEN \* None => continue
                /\ active_conditions' = Clear(active_conditions)
                /\ idx' = idx + 1
                /\ observed' = Append(observed, shared_controller_states)
                /\ UNCHANGED <<pcMain, panic_main, drawn>>
           ELSE /\ active_conditions' =
                       Clear(active_conditions)
                       \o ControllerConditions(shared_controller_states[s])
                /\ drawn' = drawn \o RenderItems(config.layouts[l].items,
                                                 active_conditions', idx, config,
                                                 shared_controller_states[s])
                /\ idx' = idx + 1
                /\ observed' = Append(observed, shared_controller_states)
                /\ UNCHANGED <<pcMain, panic_main>>
    /\ UNCHANGED <<file, config, shared_controller_states, lockVars,
                   readerVars, lastWrite, dup_sent, colorVars, orderVars, wireVars>>

\* the closure returns: the read guard is dropped
FrameUnlock ==
    /\ pcMain = "controllers"
    /\ idx > Len(config.controllers)
    /\ readers' = readers - 1
    /\ pcMain' = "repaint"
    /\ UNCHANGED <<file, config, panic_main, shared_controller_states, writer,
                   poisoned, readerVars, frameVars, lastWrite, dup_sent,
                   colorVars, orderVars, wireVars>>

\* ctx.request_repaint(): the next frame is scheduled at once
FrameRepaint ==
    /\ pcMain = "repaint"
    /\ pcMain' = "update"
    /\ UNCHANGED <<file, config, panic_main, shared_controller_states, lockVars,
                   readerVars, frameVars, lastWrite, dup_sent, colorVars, orderVars, wireVars>>

FrameHoldsView == pcMain \in {"global", "controllers"}

(***************************************************************************)
(* ColorFromString::deserialize_as.  A string is a sequence of characters; *)
(* "é" stands for a character of two UTF-8 bytes, every other one is one   *)
(* byte, and str::get works on byte offsets.                               *)
(***************************************************************************)
CharWidth(ch) == IF ch = "é" THEN 2 ELSE 1

RECURSIVE ByteLen(_)
ByteLen(str) == IF str = <<>> THEN 0 ELSE CharWidth(Head(str)) + ByteLen(Tail(str))

\* the byte offset at which character k of str starts (k = Len(str) + 1: its end)
ByteOffset(str, k) == ByteLen(SubSeq(str, 1, k - 1))

\* s.get(from..to): Some(the characters) when both offsets are character
\* boundaries within the string, None otherwise
StrGet(str, from, to) ==
    IF \E a, b \in 1..(Len(str) + 1) :
          a <= b /\ ByteOffset(str, a) = from /\ ByteOffset(str, b) = to
    THEN LET a == CHOOSE a \in 1..(Len(str) + 1) : ByteOffset(str, a) = from
             b == CHOOSE b \in 1..(Len(str) + 1) : ByteOffset(str, b) = to
         IN  [some |-> TRUE, str |-> SubSeq(str, a, b - 1)]
    ELSE [some |-> FALSE, str |-> <<>>]

\* char::to_digit(16): -1 for None
HexDigits ==
    <<"0", "1", "2", "3", "4", "5", "6", "7", "8", "9",
      "A", "B", "C", "D", "E", "F", "a", "b", "c", "d", "e", "f">>

HexValue(ch) ==
    IF \E k \in 1..22 : HexDigits[k] = ch
    THEN LET k == CHOOSE k \in 1..22 : HexDigits[k] = ch
         IN  IF k <= 16 THEN k - 1 ELSE k - 7
    ELSE -1

\* the digit loop of from_str_radix: checked multiply-add in u8
RECURSIVE ParseDigits(_, _)
ParseDigits(digits, acc) ==
    IF digits = <<>>
    THEN [ok |-> TRUE, value |-> acc]
    ELSE IF HexValue(Head(digits)) < 0 \/ acc * 16 + HexValue(Head(digits)) > 255
         THEN [ok |-> FALSE, value |-> 0]
         ELSE ParseDigits(Tail(digits), acc * 16 + HexValue(Head(digits)))

\* u8::from_str_radix(src, 16): empty is an error, a lone sign is an error,
\* one leading "+" is skipped, "-" is no digit of an unsigned type
FromStrRadix16(src) ==
    IF src = <<>> \/ src = <<"+">> \/ src = <<"-">>
    THEN [ok |-> FALSE, value |-> 0]
    ELSE IF Head(src) = "+"
         THEN ParseDigits(Tail(src), 0)
         ELSE ParseDigits(src, 0)

NoColor == [done |-> FALSE, ok |-> FALSE, rgba |-> <<>>]
ColorErr == [done |-> TRUE, ok |-> FALSE, rgba |-> <<>>]

\* for (i, item) in rgba.iter_mut().enumerate(): get(..)?, from_str_radix(..)?
RECURSIVE ColorBytes(_, _, _)
ColorBytes(str, i, rgba) ==
    IF i >= 4
    THEN [done |-> TRUE, ok |-> TRUE, rgba |-> rgba]
    ELSE LET byte_str == StrGet(str, i * 2, i * 2 + 2)
             byte == FromStrRadix16(byte_str.str)
         IN  IF ~byte_str.some
             THEN ColorErr
             ELSE IF ~byte.ok
                  THEN ColorErr
                  ELSE ColorBytes(str, i + 1, Append(rgba, byte.value))

\* Color32::from_rgba_unmultiplied(rgba[0], rgba[1], rgba[2], rgba[3])
ColorFromString(str) == ColorBytes(str, 0, <<>>)

ColorChars == {"0", "F", "+", "é"}

DeserializeColor ==
    /\ ~color_result.done
    /\ color_result' = ColorFromString(color_input)
    /\ UNCHANGED <<mainVars, shared_controller_states, lockVars, readerVars,
                   frameVars, lastWrite, dup_sent, color_input, orderVars, wireVars>>

(***************************************************************************)
(* The whole program: main(), the reader thread and the frame loop.        *)
(***************************************************************************)
PadLayout ==
    Layout("pad", <<Item("a", <<Condition(FALSE, "ButtonA")>>),
                    Item("off", <<Condition(TRUE, "Connected")>>)>>)

SpecConfigs ==
    {Config(<<ControllerConfig(0, "pad"), ControllerConfig(1, l)>>,
            <<PadLayout>>,
            <<Item("g", <<Condition(FALSE, "Connected0")>>)>>)
        : l \in {"pad", "missing"}}

SpecFiles ==
    {ConfigFile("unreadable", NoConfig), ConfigFile("invalid", NoConfig)}
    \cup {ConfigFile("ok", c) : c \in SpecConfigs}

Init ==
    /\ file \in SpecFiles
    /\ config = NoConfig
    /\ pcMain = "load_config"
    /\ panic_main = "none"
    /\ shared_controller_states = <<>>
    /\ readers = 0
    /\ writer = FALSE
    /\ poisoned = FALSE
    /\ pcReader = "unspawned"
    /\ panic_reader = "none"
    /\ message = NoMessage
    /\ controller_states = <<>>
    /\ active_conditions = <<>>
    /\ idx = 1
    /\ drawn = <<>>
    /\ observed = <<>>
    /\ lastWrite = <<>>
    /\ dup_sent = FALSE
    /\ writes = 0
    /\ written = <<>>
    /\ seen = 0
    /\ outstanding = 0
    /\ response = NoMessage
    /\ color_input = <<>>
    /\ color_result = NoColor

Frame ==
    \/ FrameLock
    \/ FrameGlobal
    \/ FrameController
    \/ FrameUnlock
    \/ FrameRepaint

Reader ==
    \/ ReaderWrite
    \/ ReaderRead
    \/ ReaderDecode
    \/ ReaderLock
    \/ ReaderAssign
    \/ ReaderUnlock

Next ==
    \/ LoadConfig
    \/ SpawnClient
    \/ RunNative
    \/ Frame
    \/ Reader

Spec == Init /\ [][Next]_vars

(***************************************************************************)
(* Frames over a wide range of configurations and store contents: the      *)
(* configuration is loaded, the store holds some decoded message, and the  *)
(* reader thread waits in read_until for the server's answer.              *)
(***************************************************************************)
Reverse(q) == [k \in 1..Len(q) |-> q[Len(q) + 1 - k]]

\* item lists exercising every condition list over three condition values
CondValues == {"Connected0", "Connected", "ButtonA"}

CondLists ==
    SeqsUpTo({Condition(n, v) : n \in BOOLEAN, v \in CondValues}, MaxConds)

CondConfigs ==
    {Config(<<ControllerConfig(0, "pad"), ControllerConfig(1, l)>>,
            <<Layout("pad", <<Item("a", c), Item("b", Reverse(c)),
                              Item("always", <<>>)>>)>>,
            <<Item("g", c), Item("h", Reverse(c))>>)
        : c \in CondLists, l \in {"pad", "missing"}}

CondEntries ==
    {ControllerState(0, 1, U32(0, 1)), ControllerState(0, 0, U32(0, 0)),
     ControllerState(1, 1, U32(0, 0)), ControllerState(1, 0, U32(0, 1))}

CondCollections == SeqsUpTo(CondEntries, MaxSnapshots)

\* one binding against snapshots over every single button bit, the high
\* half of the mask, ids above 7 and connection flags other than 0 and 1
ButtonConfig ==
    Config(<<ControllerConfig(0, "pad"), ControllerConfig(9, "pad")>>,
           <<Layout("pad", <<Item("a", <<Condition(FALSE, "ButtonA")>>),
                             Item("down", <<Condition(FALSE, "ButtonDpadDown")>>),
                             Item("home", <<Condition(FALSE, "ButtonHome")>>)>>)>>,
           <<Item("g", <<Condition(FALSE, "Connected0")>>)>>)

Halves == {0, 65535, 32769} \cup {2 ^ k : k \in 0..15}

ButtonEntries ==
    {ControllerState(i, conn, U32(h, l)) :
        i \in {0, 9}, conn \in {0, 1, 2}, h \in {0, 1, 32768, 65535}, l \in Halves}

ButtonCollections ==
    {<<e>> : e \in ButtonEntries}
    \cup {<<ControllerState(1, 1, U32(0, 2)), e>> : e \in ButtonEntries}

\* every id around the eight Connected<id> arms, with every kind of flag
ConnectedCollections ==
    {<<ControllerState(i, conn, U32(0, 0))>> :
        i \in (0..9) \cup {255}, conn \in {0, 1, 2, 255}}
    \cup {<<ControllerState(7, 1, U32(0, 0)), ControllerState(8, 1, U32(0, 0)),
            ControllerState(3, 2, U32(0, 0))>>}

\* scales, ranges and stick readings: whole, fractional, negative, zero,
\* the ends of the nominal range -32767..32767 and twice its upper end
Scales == {Whole(1), Whole(2), F32(1, 2)}

Ranges == {Whole(100), Whole(0), F32(0 - 3, 2)}

StickValues == {Whole(0), Whole(32767), Whole(0 - 32767), Whole(65534), F32(32767, 2)}

LeftSticks == {pos2(x, y) : x, y \in StickValues}

RightSticks == {Origin, pos2(Whole(32767), Whole(0 - 32767)), pos2(Whole(0 - 1), Whole(1))}

PositionConfigs ==
    {ConfigScaled(
        <<ControllerConfigAt(0, "pad", pos2(Whole(10), Whole(0 - 4))),
          ControllerConfigAt(1, "pad", Origin)>>,
        <<Layout("pad",
            <<ItemAt("l", <<>>, pos2(Whole(5), Whole(3)), StickLeft(r)),
              ItemAt("r", <<Condition(FALSE, "Connected")>>,
                     pos2(F32(1, 2), Whole(0)), StickRight(r)),
              ItemAt("n", <<>>, pos2(Whole(0 - 5), F32(3, 4)), NoModifier)>>)>>,
        <<ItemAt("g", <<>>, pos2(Whole(7), Whole(0 - 2)), StickLeft(r))>>,
        sc) : sc \in Scales, r \in Ranges}

PositionCollections ==
    UNION {{<<ControllerStateSticks(0, 1, U32(0, 0), l, r)>>,
            <<ControllerStateSticks(1, 0, U32(0, 0), r, l),
              ControllerStateSticks(0, 1, U32(0, 0), l, r)>>,
            <<ControllerStateSticks(0, 1, U32(0, 0), l, r),
              ControllerStateSticks(0, 1, U32(0, 0), r, l)>>}
           : l \in LeftSticks, r \in RightSticks}

\* the variants of ConditionValue that are neither in BUTTON_CONDITIONS nor a
\* Connected flag, plain and negated, in the global list and in a layout
UnusedValues == {"ButtonCapture", "ButtonHome", "StickLeftActive", "StickRightActive"}

UnusedConfigs ==
    {Config(<<ControllerConfig(0, "pad"), ControllerConfig(9, "pad")>>,
            <<Layout("pad",
                <<Item("plain", <<Condition(FALSE, v)>>),
                  Item("negated", <<Condition(TRUE, v)>>),
                  Item("mixed", <<Condition(FALSE, "ButtonA"), Condition(TRUE, v)>>)>>)>>,
            <<Item("plain", <<Condition(FALSE, v)>>),
              Item("negated", <<Condition(TRUE, v)>>)>>)
        : v \in UnusedValues}

FrameInputs ==
    (CondConfigs \X CondCollections)
    \cup ({ButtonConfig} \X (ButtonCollections \cup ConnectedCollections))
    \cup (PositionConfigs \X PositionCollections)
    \cup (UnusedConfigs \X ButtonCollections)

InitFrame ==
    /\ \E in \in FrameInputs :
         /\ config = in[1]
         /\ file = ConfigFile("ok", in[1])
         /\ shared_controller_states = in[2]
         /\ lastWrite = in[2]
         /\ controller_states = in[2]
         /\ dup_sent = HasDuplicateId(in[2])
         /\ written = in[2]
    /\ pcMain = "update"
    /\ panic_main = "none"
    /\ readers = 0
    /\ writer = FALSE
    /\ poisoned = FALSE
    /\ pcReader = "read"
    /\ panic_reader = "none"
    /\ message = NoMessage
    /\ active_conditions = <<>>
    /\ idx = 1
    /\ drawn = <<>>
    /\ observed = <<>>
    /\ writes = 1
    /\ seen = 0
    /\ outstanding = 1
    /\ response = NoMessage
    /\ color_input = <<>>
    /\ color_result = NoColor

NextFrame == Frame

SpecFrame == InitFrame /\ [][NextFrame]_vars

(***************************************************************************)
(* Color decoding over every string of at most MaxColorLen characters.     *)
(***************************************************************************)
InitColor ==
    /\ color_input \in SeqsUpTo(ColorChars, MaxColorLen)
    /\ color_result = NoColor
    /\ file = ConfigFile("ok", NoConfig)
    /\ config = NoConfig
    /\ pcMain = "load_config"
    /\ panic_main = "none"
    /\ shared_controller_states = <<>>
    /\ readers = 0
    /\ writer = FALSE
    /\ poisoned = FALSE
    /\ pcReader = "unspawned"
    /\ panic_reader = "none"
    /\ message = NoMessage
    /\ controller_states = <<>>
    /\ active_conditions = <<>>
    /\ idx = 1
    /\ drawn = <<>>
    /\ observed = <<>>
    /\ lastWrite = <<>>
    /\ dup_sent = FALSE
    /\ writes = 0
    /\ written = <<>>
    /\ seen = 0
    /\ outstanding = 0
    /\ response = NoMessage

NextColor == DeserializeColor

SpecColor == InitColor /\ [][NextColor]_vars

(***************************************************************************)
(* Fairness for the liveness properties.  A thread that can take a step    *)
(* that does not wait for the network is eventually scheduled (weak        *)
(* fairness), and a thread that asks for the lock gets it when the lock is *)
(* free again and again (strong fairness of FrameLock and ReaderLock: the  *)
(* other thread holds the lock only between its own acquire and release).  *)
(* The reader's socket write and read get no fairness: the server may      *)
(* never answer.                                                           *)
(***************************************************************************)
FairSpec ==
    /\ Spec
    /\ WF_vars(LoadConfig \/ SpawnClient \/ RunNative)
    /\ SF_vars(FrameLock)
    /\ WF_vars(FrameGlobal \/ FrameController \/ FrameUnlock \/ FrameRepaint)
    /\ WF_vars(ReaderDecode)
    /\ SF_vars(ReaderLock)
    /\ WF_vars(ReaderAssign \/ ReaderUnlock)

Range(q) == {q[k] : k \in 1..Len(q)}

(***************************************************************************)
(* C1.  While a frame holds its read view, the store is the collection of  *)
(* the last completed write (initially the empty collection), and every    *)
(* read the frame has made through the view returned that same collection: *)
(* no frame sees entries of two writes, and the collection does not change *)
(* under the view.                                                         *)
(***************************************************************************)
C1_FrameObservesOneCompleteWrite ==
    FrameHoldsView =>
        /\ readers = 1
        /\ shared_controller_states = lastWrite
        /\ \A k \in 1..Len(observed) : observed[k] = lastWrite

\* a frame in the middle of its pass over a non-empty collection while the
\* reader waits at the write lock with a different collection
C1_Witness ==
    /\ pcMain = "controllers"
    /\ idx = 2
    /\ Len(observed) = 3
    /\ shared_controller_states /= <<>>
    /\ pcReader = "lock"
    /\ controller_states /= shared_controller_states

(***************************************************************************)
(* C2.  A reader step taken on a message that fails to decode leaves the   *)
(* store unchanged, does not end the thread, and goes back to sending a    *)
(* request; and the store changes only in the assignment that follows a    *)
(* successful decode, to that decode's collection.                         *)
(***************************************************************************)
C2_DecodeFailureKeepsStore ==
    [][/\ (pcReader = "decode" /\ ~DecodeOk(message) /\ pcReader' /= pcReader)
          => /\ shared_controller_states' = shared_controller_states
             /\ pcReader' = "write"
             /\ panic_reader' = "none"
             /\ controller_states' = controller_states
       /\ (shared_controller_states' /= shared_controller_states)
          => /\ pcReader = "assign"
             /\ DecodeOk(message)
             /\ shared_controller_states' = Decoded(message)]_vars

\* the reader is back at the request after a list that did not decode, with
\* the previous non-empty collection still in the store
C2_Witness ==
    /\ pcReader = "write"
    /\ message.kind = "list"
    /\ ~DecodeOk(message)
    /\ shared_controller_states /= <<>>
    /\ shared_controller_states = lastWrite

(***************************************************************************)
(* C3.  After a failed request write or a failed read in the reader's loop *)
(* the process is terminated: the render loop takes no further step.       *)
(***************************************************************************)
C3_NoFrameAfterReaderIoFailure ==
    [][(panic_reader \in {"Failed to write to tcp stream", "Failed to read"})
          => (~Frame)]_vars

(***************************************************************************)
(* C4.  The render loop never runs with a configuration in which a         *)
(* controller binding names a layout that is not in config.layouts, and    *)
(* the layout lookup of a frame never fails.                               *)
(***************************************************************************)
C4_NoFrameWithUnresolvedLayout ==
    /\ pcMain \in {"update", "global", "controllers", "repaint"}
          => \A k \in 1..Len(config.controllers) :
                FindLayout(config.layouts, config.controllers[k].layout) /= 0
    /\ panic_main /= "unknown layout"

(***************************************************************************)
(* C5.  After an item list has been evaluated in a context, global or      *)
(* per-controller, an item of the list has been drawn exactly when every   *)
(* (not, value) pair of its list satisfies (value in the active set) =     *)
(* (not negated); an item without conditions has been drawn; and two items *)
(* of the list with the same pairs in another order fare alike.            *)
(***************************************************************************)
Satisfied(condition, set) ==
    \A j \in 1..Len(condition) :
        (condition[j].value \in set) = (~condition[j].not)

DrawnIn(ctx) == {drawn[k].item : k \in {j \in 1..Len(drawn) : drawn[j].ctx = ctx}}

DrawnAsRequired(items, ctx) ==
    /\ \A k \in 1..Len(items) :
          /\ (items[k].name \in DrawnIn(ctx))
                <=> Satisfied(items[k].condition, Range(active_conditions))
          /\ items[k].condition = <<>> => items[k].name \in DrawnIn(ctx)
    /\ \A k, m \in 1..Len(items) :
          Range(items[k].condition) = Range(items[m].condition)
             => ((items[k].name \in DrawnIn(ctx)) <=> (items[m].name \in DrawnIn(ctx)))

\* the binding before idx was evaluated: its snapshot was found
BindingEvaluated ==
    /\ pcMain = "controllers"
    /\ idx > 1
    /\ FindState(shared_controller_states, config.controllers[idx - 1].id) /= 0

BindingState ==
    shared_controller_states[
        FindState(shared_controller_states, config.controllers[idx - 1].id)]

BindingLayout ==
    config.layouts[FindLayout(config.layouts, config.controllers[idx - 1].layout)]

C5_DrawnIffEveryPairSatisfied ==
    /\ (pcMain = "controllers" /\ idx = 1) => DrawnAsRequired(config.items, 0)
    /\ BindingEvaluated => DrawnAsRequired(BindingLayout.items, idx - 1)

\* a layout item with a negated and a plain condition on different values
\* has been drawn for a binding, and the global item with the same list has
\* not been drawn in the same frame
C5_Witness ==
    /\ BindingEvaluated
    /\ \E k \in 1..Len(BindingLayout.items) :
          /\ Len(BindingLayout.items[k].condition) = 2
          /\ BindingLayout.items[k].condition[1].not
          /\ ~BindingLayout.items[k].condition[2].not
          /\ BindingLayout.items[k].condition[1].value
                /= BindingLayout.items[k].condition[2].value
          /\ BindingLayout.items[k].name \in DrawnIn(idx - 1)
          /\ config.items[1].condition = BindingLayout.items[k].condition
          /\ config.items[1].name \notin DrawnIn(0)

(***************************************************************************)
(* C6.  The iteration of the binding loop on a binding whose id has no     *)
(* snapshot in the observed collection draws nothing, raises no error and  *)
(* moves on to the next binding.                                           *)
(***************************************************************************)
C6_MissingSnapshotSkipsBinding ==
    [][(/\ FrameController
        /\ FindState(shared_controller_states, config.controllers[idx].id) = 0)
          => /\ panic_main' = "none"
             /\ pcMain' = "controllers"
             /\ drawn' = drawn
             /\ idx' = idx + 1]_vars

(***************************************************************************)
(* C7.  After a binding with a snapshot has been evaluated, the button at  *)
(* position i of the button ordering (ButtonA at 0, ButtonDpadDown at 15)  *)
(* is in the active set exactly when bit i of the snapshot's mask is set,  *)
(* and the set holds nothing but those buttons and Connected: the high     *)
(* half of the mask contributes nothing.                                   *)
(***************************************************************************)
C7_ButtonFlagsAreLowSixteenBits ==
    BindingEvaluated =>
        LET active == Range(active_conditions)
            low == BindingState.bs.lo
        IN  /\ \A i \in 0..15 :
                  (BUTTON_CONDITIONS[i + 1] \in active) <=> ((low \div (2 ^ i)) % 2 = 1)
            /\ ("ButtonA" \in active) <=> (low % 2 = 1)
            /\ ("ButtonDpadDown" \in active) <=> (low >= 32768)
            /\ active \subseteq {BUTTON_CONDITIONS[i] : i \in 1..16} \cup {"Connected"}

\* a snapshot with bit 15 and all of bits 16..31 set gave ButtonDpadDown alone
C7_Witness ==
    /\ BindingEvaluated
    /\ BindingState.bs = U32(65535, 32768)
    /\ active_conditions = <<"ButtonDpadDown">>

(***************************************************************************)
(* C8.  Decoding a color string succeeds exactly for strings of 8          *)
(* hexadecimal digits, and then yields the bytes R, G, B, A in that order. *)
(***************************************************************************)
C8_ColorDecodesIffEightHexDigits ==
    color_result.done =>
        /\ color_result.ok
              <=> /\ Len(color_input) = 8
                  /\ \A k \in 1..Len(color_input) : color_input[k] \in Range(HexDigits)
        /\ color_result.ok
              => color_result.rgba =
                    [i \in 1..4 |-> 16 * HexValue(color_input[2 * i - 1])
                                    + HexValue(color_input[2 * i])]

(***************************************************************************)
(* C9.  As claimed: the store never holds two snapshots with one id.       *)
(***************************************************************************)
C9_AtMostOneSnapshotPerId == ~HasDuplicateId(shared_controller_states)

(***************************************************************************)
(* C9, amended.  The store never holds two snapshots with one id unless    *)
(* the server has sent a list that repeats an id.                          *)
(***************************************************************************)
C9_AtMostOneSnapshotPerIdUnlessSent ==
    ~dup_sent => ~HasDuplicateId(shared_controller_states)

\* a second write of two snapshots with different ids is in the store
C9_Witness ==
    /\ ~dup_sent
    /\ Len(shared_controller_states) = 2
    /\ shared_controller_states = lastWrite
    /\ pcReader = "lock"
    /\ controller_states /= <<>>

(***************************************************************************)
(* C10.  The reader thread holds the write lock only around the            *)
(* assignment, never while it sends, reads or decodes; and a frame that    *)
(* asks for its read view obtains it and runs to its end.                  *)
(***************************************************************************)
C10_FrameNeverWaitsOnNetwork ==
    /\ [](writer => pcReader \in {"assign", "unlock"})
    /\ (pcMain = "update") ~> (pcMain = "repaint")

(***************************************************************************)
(* C11.  A frame observes the collection handed to the most recent         *)
(* replacement of the store that completed before the frame took its view, *)
(* never an earlier one; the number of the replacement a frame observes    *)
(* never decreases from frame to frame (replacements may be skipped); and  *)
(* before the first replacement every frame observes the empty collection. *)
(***************************************************************************)
C11_FramesFollowWriteOrder ==
    /\ [](FrameHoldsView =>
            /\ seen = writes
            /\ \A k \in 1..Len(observed) : observed[k] = written
            /\ writes = 0 => \A k \in 1..Len(observed) : observed[k] = <<>>)
    /\ [][seen' >= seen]_vars

\* a frame in its pass observes the second replacement while the reader
\* waits at the write lock with the collection of a third
C11_Witness ==
    /\ pcMain = "controllers"
    /\ seen = 2
    /\ written /= <<>>
    /\ observed = <<written, written>>
    /\ pcReader = "lock"
    /\ controller_states /= written

(***************************************************************************)
(* C12.  After the global pass of a frame the active set is exactly the    *)
(* set of Connected<N> with N in 0..7 such that the observed collection    *)
(* has a snapshot with id N and connection flag 1; it holds no button flag *)
(* and not the generic Connected flag.                                     *)
(***************************************************************************)
C12_GlobalSetIsConnectedIds ==
    (pcMain = "controllers" /\ idx = 1) =>
        /\ Range(active_conditions) =
              {CONNECTED_N[n + 1] :
                 n \in {m \in 0..7 :
                          \E k \in 1..Len(shared_controller_states) :
                             /\ shared_controller_states[k].id = m
                             /\ shared_controller_states[k].c = 1}}
        /\ "Connected" \notin Range(active_conditions)
        /\ \A i \in 1..16 : BUTTON_CONDITIONS[i] \notin Range(active_conditions)

\* snapshots 7 and 8 are connected and snapshot 3 has flag 2: Connected7 alone
C12_Witness ==
    /\ pcMain = "controllers"
    /\ idx = 1
    /\ Len(shared_controller_states) = 3
    /\ shared_controller_states[2].id = 8
    /\ shared_controller_states[3].c = 2
    /\ active_conditions = <<"Connected7">>

(***************************************************************************)
(* C13.  After the iteration of a binding, the active set holds exactly    *)
(* the generic Connected flag, if the binding's own snapshot has           *)
(* connection flag 1, and the button flags of that snapshot, in push       *)
(* order; it is empty after a binding that was skipped for a missing       *)
(* snapshot.  No Connected<N> of the global pass and no flag of an earlier *)
(* binding is left in it.                                                  *)
(***************************************************************************)
OwnFlags(state) ==
    (IF state.c = 1 THEN {"Connected"} ELSE {})
    \cup {BUTTON_CONDITIONS[i + 1] :
            i \in {j \in 0..15 : (state.bs.lo \div (2 ^ j)) % 2 = 1}}

C13_BindingSetIsRebuilt ==
    (pcMain = "controllers" /\ idx > 1) =>
        /\ BindingEvaluated
              => /\ Range(active_conditions) = OwnFlags(BindingState)
                 /\ Len(active_conditions) = Cardinality(OwnFlags(BindingState))
        /\ ~BindingEvaluated => active_conditions = <<>>
        /\ \A n \in 1..8 : CONNECTED_N[n] \notin Range(active_conditions)

\* the second binding was evaluated on a connected snapshot without buttons
\* after a first binding whose snapshot was connected with ButtonA, in a
\* frame whose global pass had found both connected
C13_Witness ==
    /\ pcMain = "controllers"
    /\ idx = 3
    /\ BindingEvaluated
    /\ active_conditions = <<"Connected">>
    /\ GlobalConditions(shared_controller_states) = <<"Connected0", "Connected1">>
    /\ FindState(shared_controller_states, config.controllers[1].id) /= 0
    /\ ControllerConditions(shared_controller_states[
          FindState(shared_controller_states, config.controllers[1].id)])
         = <<"Connected", "ButtonA">>

(***************************************************************************)
(* C14.  One step of the reader thread in its loop: from the request it    *)
(* goes to the read with an empty buffer (or fails); from the read to the  *)
(* decode with exactly what the server sent for that request in the buffer *)
(* (or fails); from a failed decode back to the request; from a successful *)
(* one through lock, assignment and unlock back to the request.            *)
(***************************************************************************)
ReaderLoopStep ==
    /\ (pcReader = "write" /\ pcReader' /= pcReader)
          => \/ pcReader' = "read" /\ message' = NoMessage
             \/ pcReader' = "panicked"
    /\ (pcReader = "read" /\ pcReader' /= pcReader)
          => \/ pcReader' = "decode" /\ message' = response'
             \/ pcReader' = "panicked"
    /\ (pcReader = "decode" /\ pcReader' /= pcReader)
          => pcReader' = (IF DecodeOk(message) THEN "lock" ELSE "write")
    /\ (pcReader = "lock" /\ pcReader' /= pcReader) => pcReader' = "assign"
    /\ (pcReader = "assign" /\ pcReader' /= pcReader) => pcReader' = "unlock"
    /\ (pcReader = "unlock" /\ pcReader' /= pcReader) => pcReader' = "write"

\* at most one request is unanswered, and only while the thread reads
RequestsAlternate ==
    /\ outstanding \in {0, 1}
    /\ pcReader = "read" => outstanding = 1
    /\ pcReader \in {"write", "decode", "lock", "assign", "unlock"} => outstanding = 0

(***************************************************************************)
(* C14, as claimed: the above, and every read ends with the marker, so no  *)
(* request is sent before the previous response was read to its marker.    *)
(***************************************************************************)
C14_AlternatesReadingToMarker ==
    /\ []RequestsAlternate
    /\ [][/\ ReaderLoopStep
          /\ (pcReader = "read" /\ pcReader' = "decode") => EndsWithMarker(message')
          /\ (pcReader = "write" /\ pcReader' = "read")
                => (message = NoMessage \/ EndsWithMarker(message))]_vars

\* What the loop does keep: the same, where a read ends with the marker or
\* with the end of the stream.
ReaderAlternatesToMarkerOrEof ==
    /\ []RequestsAlternate
    /\ [][/\ ReaderLoopStep
          /\ (pcReader = "read" /\ pcReader' = "decode")
                => (EndsWithMarker(message') \/ message'.kind = "eof")]_vars

(***************************************************************************)
(* C15.  Every draw call of a frame is at the claimed position.  For a     *)
(* layout item drawn for binding b, with base = (anchor of b + item        *)
(* position) * scale and (sx, sy) the reading of the first snapshot with   *)
(* the binding's id (left stick for StickLeft, right stick for             *)
(* StickRight): the position is base without a modifier, and otherwise     *)
(* (position.x - base.x) * 32767 = range * scale * sx and                  *)
(* (base.y - position.y) * 32767 = range * scale * sy, whatever the size   *)
(* of sx and sy.  A global item is drawn at item position * scale, with or *)
(* without a modifier.                                                     *)
(***************************************************************************)
ItemNamed(items, name) ==
    items[CHOOSE k \in 1..Len(items) : items[k].name = name]

Base(d) ==
    LET controller == config.controllers[d.ctx]
        item == ItemNamed(config.layouts[FindLayout(config.layouts,
                                                    controller.layout)].items, d.item)
    IN  pos2(FMul(FAdd(controller.position.x, item.position.x), config.scale),
             FMul(FAdd(controller.position.y, item.position.y), config.scale))

Modifier(d) ==
    ItemNamed(config.layouts[FindLayout(config.layouts,
                                        config.controllers[d.ctx].layout)].items,
              d.item).position_modifier

OwnSnapshot(d) ==
    shared_controller_states[
        FindState(shared_controller_states, config.controllers[d.ctx].id)]

AtClaimedPosition(d) ==
    IF d.ctx = 0
    THEN LET item == ItemNamed(config.items, d.item)
         IN  d.pos = pos2(FMul(item.position.x, config.scale),
                          FMul(item.position.y, config.scale))
    ELSE LET m == Modifier(d)
             stick == IF m.type = "stick_left" THEN OwnSnapshot(d).ls
                                               ELSE OwnSnapshot(d).rs
             k == FMul(m.range, config.scale)
         IN  IF m.type = "none"
             THEN d.pos = Base(d)
             ELSE /\ FMul(FSub(d.pos.x, Base(d).x), Whole(32767)) = FMul(k, stick.x)
                  /\ FMul(FSub(Base(d).y, d.pos.y), Whole(32767)) = FMul(k, stick.y)

C15_ItemsDrawnAtClaimedPosition ==
    pcMain \in {"controllers", "repaint"}
        => \A n \in 1..Len(drawn) : AtClaimedPosition(drawn[n])

\* a StickLeft item of range 100 drawn at scale 1/2 for the binding anchored
\* at (10, -4), whose snapshot has the left stick at twice the nominal range
\* to the right and half of it upwards, and another right stick: the item is
\* 100 to the right and 25 above its base (7.5, -0.5); the global item, with
\* the same modifier, is at its scaled position
C15_Witness ==
    /\ pcMain = "controllers"
    /\ idx = 2
    /\ config.scale = F32(1, 2)
    /\ Len(shared_controller_states) = 1
    /\ shared_controller_states[1].ls = pos2(Whole(65534), F32(32767, 2))
    /\ shared_controller_states[1].rs = pos2(Whole(0 - 1), Whole(1))
    /\ \E n \in 1..Len(drawn) :
          /\ drawn[n].ctx = 1
          /\ drawn[n].item = "l"
          /\ Modifier(drawn[n]) = StickLeft(Whole(100))
          /\ drawn[n].pos = pos2(F32(215, 2), F32(0 - 51, 2))
    /\ \E n \in 1..Len(drawn) :
          /\ drawn[n].ctx = 0
          /\ drawn[n].pos = pos2(F32(7, 2), Whole(0 - 1))

(***************************************************************************)
(* C16.  No step of a frame changes the store's collection or the          *)
(* configuration, and the configuration never changes once it is loaded.   *)
(* A step that changes the collection is the reader thread's assignment    *)
(* under the write lock, after a successful decode, and it leaves in the   *)
(* store the decoded list as a whole, whatever the store held.             *)
(***************************************************************************)
C16_OnlyTheReaderReplacesTheStore ==
    [][/\ Frame => UNCHANGED <<shared_controller_states, config>>
       /\ pcMain /= "load_config" => config' = config
       /\ shared_controller_states' /= shared_controller_states
             => /\ pcReader = "assign"
                /\ writer
                /\ readers = 0
                /\ DecodeOk(message)
                /\ shared_controller_states' = Decoded(message)
                /\ UNCHANGED <<mainVars, frameVars>>]_vars

\* the second replacement is in the store and not yet unlocked: it put a
\* shorter list in the place of a longer one, which a frame had observed
C16_Witness ==
    /\ pcReader = "unlock"
    /\ writes = 2
    /\ seen = 1
    /\ shared_controller_states = Decoded(message)
    /\ lastWrite /= <<>>
    /\ Len(shared_controller_states) < Len(lastWrite)
    /\ shared_controller_states /= <<>>
    /\ observed /= <<>>
    /\ \A k \in 1..Len(observed) : observed[k] = lastWrite

(***************************************************************************)
(* C17.  The reader thread fails only in its request or its read, and      *)
(* holds no write guard there; the lock is never poisoned and no thread    *)
(* ever fails on a poisoned lock.  Once the reader thread has failed the   *)
(* lock is free, the store holds the last collection that was stored, a    *)
(* frame that is due can take its read view, and a frame that holds its    *)
(* view has observed that collection only.                                 *)
(***************************************************************************)
C17_ReaderFailureLeavesStoreUsable ==
    /\ [](/\ ~poisoned
          /\ panic_main /= "PoisonError"
          /\ panic_reader /= "PoisonError")
    /\ [](pcReader = "panicked"
            => /\ ~writer
               /\ shared_controller_states = written
               /\ shared_controller_states = lastWrite
               /\ pcMain = "update" => ENABLED FrameLock
               /\ FrameHoldsView
                    => \A k \in 1..Len(observed) : observed[k] = written)
    /\ [][(pcReader /= "panicked" /\ pcReader' = "panicked")
             => (~writer /\ pcReader \in {"write", "read"})]_vars

\* the read failed after two replacements, and a frame that has observed the
\* second one holds its view and has drawn from it
C17_Witness ==
    /\ pcReader = "panicked"
    /\ panic_reader = "Failed to read"
    /\ writes = 2
    /\ written /= <<>>
    /\ pcMain = "controllers"
    /\ readers = 1
    /\ seen = 2
    /\ drawn /= <<>>
    /\ \A k \in 1..Len(observed) : observed[k] = written

(***************************************************************************)
(* C18.  ButtonCapture, ButtonHome, StickLeftActive and StickRightActive   *)
(* are variants of ConditionValue, and none of them is ever in the active  *)
(* set, in the global pass or for a binding, whatever the store holds.  In *)
(* every pass over an item list, an item with one of them un-negated in    *)
(* its list has not been drawn, an item whose pairs are all negated ones   *)
(* of these values has been drawn, and leaving the negated ones out of an  *)
(* item's list does not change whether it has been drawn.                  *)
(***************************************************************************)
NegatedUnused(c) == c.not /\ c.value \in UnusedValues

UnusedHonoured(items, ctx) ==
    \A k \in 1..Len(items) :
        LET condition == items[k].condition
            isDrawn == items[k].name \in DrawnIn(ctx)
        IN  /\ (\E j \in 1..Len(condition) :
                  ~condition[j].not /\ condition[j].value \in UnusedValues)
               => ~isDrawn
            /\ (\A j \in 1..Len(condition) : NegatedUnused(condition[j]))
               => isDrawn
            /\ isDrawn <=> Satisfied(SelectSeq(condition, LAMBDA c : ~NegatedUnused(c)),
                                     Range(active_conditions))

C18_UnusedValuesNeverActive ==
    /\ UnusedValues \subseteq ConditionValue
    /\ Range(active_conditions) \cap UnusedValues = {}
    /\ (pcMain = "controllers" /\ idx = 1) => UnusedHonoured(config.items, 0)
    /\ BindingEvaluated => UnusedHonoured(BindingLayout.items, idx - 1)

\* a binding whose snapshot has all 32 bits of the mask set has been
\* evaluated against a layout on ButtonHome: the plain item has not been
\* drawn, the negated and the mixed one have, as the negated global item
C18_Witness ==
    /\ BindingEvaluated
    /\ BindingState.bs = U32(65535, 65535)
    /\ BindingState.c = 1
    /\ Len(BindingLayout.items) = 3
    /\ BindingLayout.items[1].condition = <<Condition(FALSE, "ButtonHome")>>
    /\ BindingLayout.items[2].condition = <<Condition(TRUE, "ButtonHome")>>
    /\ DrawnIn(idx - 1) = {"negated", "mixed"}
    /\ DrawnIn(0) = {"negated"}
    /\ Len(active_conditions) = 17
====
